---------------------------- MODULE Spec2Model ----------------------------
(***************************************************************************)
(* Model of moleditpy_plugin/orca_xyz2inp_gui.py: the ORCA input dialog    *)
(* (OrcaInputDialog), its handlers and the plugin entry point run().       *)
(*                                                                         *)
(* Text is modelled as a sequence of tokens.  A token is either one        *)
(* whitespace character (" ", "\n", "\t") or a maximal run of              *)
(* non-whitespace characters (a word), so that two texts are equal as      *)
(* Python strings exactly when their token sequences are equal.  The       *)
(* string operations of the code (strip, split, join, f-strings, write)    *)
(* are computed on these sequences.                                        *)
(***************************************************************************)
EXTENDS Integers, Sequences, FiniteSets, TLC

(***************************************************************************)
(* Bounds of the model.                                                    *)
(***************************************************************************)
MaxAtoms == 2
MaxFailedWrites == 1

(***************************************************************************)
(* Program constants: the ranges of the four spin boxes and their initial  *)
(* values (setup_ui).                                                      *)
(***************************************************************************)
ChargeMin == -10
ChargeMax == 10
ChargeInit == 0
MultMin == 1
MultMax == 10
MultInit == 1
NprocsMin == 1
NprocsMax == 128
NprocsInit == 1
MaxcoreMin == 100
MaxcoreMax == 100000
MaxcoreInit == 1000

PLUGIN_NAME == <<"ORCA", " ", "xyz2inp", " ", "GUI">>

(***************************************************************************)
(* Python string operations on token sequences.                            *)
(***************************************************************************)
Whitespace == {" ", "\n", "\t"}

\* s + t for two texts: the last word of s and the first word of t run
\* together into one word.
cat(s, t) ==
    IF s = <<>> THEN t
    ELSE IF t = <<>> THEN s
    ELSE IF s[Len(s)] \notin Whitespace /\ t[1] \notin Whitespace
         THEN SubSeq(s, 1, Len(s) - 1) \o <<s[Len(s)] \o t[1]>> \o Tail(t)
         ELSE s \o t

RECURSIVE cat_all(_)
cat_all(parts) ==
    IF parts = <<>> THEN <<>> ELSE cat(Head(parts), cat_all(Tail(parts)))

\* str(n) for an integer n, as one word.
str(n) == <<ToString(n)>>

RECURSIVE lstrip(_)
lstrip(s) ==
    IF s # <<>> /\ Head(s) \in Whitespace THEN lstrip(Tail(s)) ELSE s

RECURSIVE rstrip(_)
rstrip(s) ==
    IF s # <<>> /\ s[Len(s)] \in Whitespace
    THEN rstrip(SubSeq(s, 1, Len(s) - 1))
    ELSE s

\* Variant: lstrip() in place of strip().
strip_left_only(s) == lstrip(s)

\* str.strip(): leading and trailing whitespace removed.
strip(s) == rstrip(lstrip(s))

\* str.split(sep) for a one-character separator: always at least one piece.
RECURSIVE split(_, _)
split(s, sep) ==
    IF \E i \in 1..Len(s) : s[i] = sep
    THEN LET i == CHOOSE k \in 1..Len(s) :
                      s[k] = sep /\ \A j \in 1..(k - 1) : s[j] # sep
         IN  <<SubSeq(s, 1, i - 1)>> \o split(SubSeq(s, i + 1, Len(s)), sep)
    ELSE <<s>>

\* sep.join(parts)
RECURSIVE join(_, _)
join(sep, parts) ==
    IF parts = <<>> THEN <<>>
    ELSE IF Len(parts) = 1 THEN parts[1]
    ELSE cat(parts[1], cat(<<sep>>, join(sep, Tail(parts))))

\* parts[n:]
drop(parts, n) == SubSeq(parts, n + 1, Len(parts))

(***************************************************************************)
(* The molecule of the host application (an RDKit Mol).  Coordinates are   *)
(* kept in hundredths of an Angstrom.                                      *)
(***************************************************************************)
NoMol == [none |-> TRUE]

AtomKinds ==
    { [symbol |-> "H",  radicals |-> 0, charge |-> 0, x |-> 96,   y |-> 0, z |-> 0],
      [symbol |-> "Mn", radicals |-> 5, charge |-> 2, x |-> -150, y |-> 5, z |-> 0] }

MolNames == { <<>>, <<"mol">> }

AtomLists == UNION { [1..n -> AtomKinds] : n \in 0..MaxAtoms }

Mols == [atoms : AtomLists, name : MolNames]

RECURSIVE SumOver(_, _, _)
SumOver(atoms, i, field) ==
    IF i > Len(atoms) THEN 0
    ELSE (IF field = "radicals" THEN atoms[i].radicals ELSE atoms[i].charge)
         + SumOver(atoms, i + 1, field)

\* Chem.GetFormalCharge(mol)
GetFormalCharge(mol) == SumOver(mol.atoms, 1, "charge")

\* sum(atom.GetNumRadicalElectrons() for atom in mol.GetAtoms())
NumRadicalElectrons(mol) == SumOver(mol.atoms, 1, "radicals")

\* A coordinate printed with six decimals, as RDKit's XYZ writer does.
FormatCoord(v) ==
    LET a == IF v < 0 THEN -v ELSE v
        frac == a % 100
    IN  << (IF v < 0 THEN "-" ELSE "") \o ToString(a \div 100) \o "."
           \o (IF frac < 10 THEN "0" ELSE "") \o ToString(frac) \o "0000" >>

AtomLine(a) ==
    cat_all(<< <<a.symbol>>, <<" ">>, FormatCoord(a.x), <<" ">>,
               FormatCoord(a.y), <<" ">>, FormatCoord(a.z), <<"\n">> >>)

RECURSIVE AtomLines(_, _)
AtomLines(atoms, i) ==
    IF i > Len(atoms) THEN <<>>
    ELSE cat(AtomLine(atoms[i]), AtomLines(atoms, i + 1))

\* Chem.MolToXYZBlock(mol) for a molecule with coordinates: the atom count,
\* the comment line (the molecule's name), then one line per atom, every
\* line ended by a newline.
MolToXYZBlock(mol) ==
    cat_all(<< str(Len(mol.atoms)), <<"\n">>, mol.name, <<"\n">>,
               AtomLines(mol.atoms, 1) >>)

\* QSpinBox.setValue(v) on a spin box of range lo..hi: the value is clamped.
setValue(v, lo, hi) == IF v < lo THEN lo ELSE IF v > hi THEN hi ELSE v


(***************************************************************************)
(* int(text) of load_defaults: Python's int() on a string of decimal       *)
(* digits with an optional sign; anything else raises ValueError.          *)
(***************************************************************************)
Digits == {"0", "1", "2", "3", "4", "5", "6", "7", "8", "9"}

DigitValue(c) == CHOOSE d \in 0..9 : ToString(d) = c

RECURSIVE DigitsValue(_)
DigitsValue(cs) ==
    IF cs = <<>> THEN 0
    ELSE 10 * DigitsValue(SubSeq(cs, 1, Len(cs) - 1)) + DigitValue(cs[Len(cs)])

int_raises(cs) ==
    LET body == IF cs # <<>> /\ cs[1] \in {"-", "+"} THEN Tail(cs) ELSE cs
    IN  body = <<>> \/ \E i \in 1..Len(body) : body[i] \notin Digits

int(cs) ==
    IF cs # <<>> /\ cs[1] = "-" THEN -DigitsValue(Tail(cs))
    ELSE IF cs # <<>> /\ cs[1] = "+" THEN DigitsValue(Tail(cs))
    ELSE DigitsValue(cs)

(***************************************************************************)
(* The environment of the process (os.environ): each of the two variables  *)
(* is unset or holds a string, given by its characters.                    *)
(***************************************************************************)
Unset == [set |-> FALSE, chars |-> <<>>]
EnvStr(cs) == [set |-> TRUE, chars |-> cs]

Environments ==
    { [orca_xyz2inp_nprocs |-> Unset, orca_xyz2inp_maxcore |-> Unset],
      [orca_xyz2inp_nprocs |-> EnvStr(<<"4">>),
       orca_xyz2inp_maxcore |-> EnvStr(<<"2", "0", "0", "0">>)],
      [orca_xyz2inp_nprocs |-> EnvStr(<<"2", "0", "0">>),
       orca_xyz2inp_maxcore |-> EnvStr(<<"-", "5">>)],
      [orca_xyz2inp_nprocs |-> EnvStr(<<"x">>),
       orca_xyz2inp_maxcore |-> EnvStr(<<>>)] }

(***************************************************************************)
(* The file system: every path holds a file with a text, or nothing.       *)
(***************************************************************************)
NoPath == ""
Paths == {"a.tmplt", "b.inp"}

NoFile == [exists |-> FALSE, text |-> <<>>]
File(t) == [exists |-> TRUE, text |-> t]

\* os.path.exists(path)
exists(files, path) == path \in DOMAIN files /\ files[path].exists

Pads == { <<>>, <<" ">>, <<"\n">>, <<"\t", "\n">> }

TemplateCores ==
    { <<>>,
      <<"!", " ", "B3LYP">>,
      <<"!B3LYP", "\n", "\n", "%pal", " ", "nprocs", " ", "4", " ", "end", "\n",
        "%MaxCore", " ", "2000">> }

\* The template files of the user: a core text with whitespace around it.
Templates == { cat_all(<<p, c, q>>) : p \in Pads, c \in TemplateCores, q \in Pads }


\* The templates the dialog's runs start from: each core, padded.
DialogTemplates == { cat_all(<< <<"\n">>, c, <<" ", "\n">> >>) : c \in TemplateCores }

\* The host's molecule in the runs that follow the dialog through failures:
\* none, or one unnamed atom.
DialogMols == {NoMol} \cup {m \in Mols : m.name = <<>> /\ Len(m.atoms) = 1}

\* The environment in those runs: neither variable is set.
DialogEnvironments == {e \in Environments : ~e.orca_xyz2inp_nprocs.set}

\* What a file holds before the plugin first writes it.
OldOutput == <<"old">>

(***************************************************************************)
(* State.                                                                  *)
(***************************************************************************)
VARIABLES
    current_mol,    \* main_window.current_mol: a molecule or NoMol
    environ,        \* os.environ: the two variables load_defaults reads
    dialog,         \* "none", "open", "accepted" or "rejected"
    le_template,    \* the template path field
    sb_charge, sb_mult, sb_nprocs, sb_maxcore,   \* the four spin boxes
    fs,             \* the file system
    handler,        \* the handler that ran last
    message,        \* the message box the last handler showed
    picker_shown,   \* whether the last handler showed the save picker
    output_path,    \* what the save picker returned to the last handler
    template_text,  \* what f.read() returned to the last handler
    raised,         \* the statement of the try block that raised, or "none"
    opened,         \* the paths the last handler opened for writing
    fs0,            \* the file system before the plugin ran
    mult_edited,    \* whether the user has edited the multiplicity
    spoiled,        \* the paths failed runs of generate_file have written to
    failed_writes   \* how many runs of generate_file failed while writing

fields == <<le_template, sb_charge, sb_mult, sb_nprocs, sb_maxcore>>
host == <<current_mol, environ>>
history == <<fs0, mult_edited, spoiled, failed_writes>>
run_record == <<picker_shown, output_path, template_text, raised, opened>>
vars == <<current_mol, environ, dialog, le_template, sb_charge, sb_mult, sb_nprocs,
          sb_maxcore, fs, handler, message, picker_shown, output_path,
          template_text, raised, opened, fs0, mult_edited, spoiled,
          failed_writes>>

NoMessage == <<"none", "", "">>
MsgRunNoMolecule == <<"warning", "ORCA xyz2inp GUI", "No molecule loaded.">>
MsgTemplateNotFound == <<"warning", "Error", "Template file not found.">>
MsgNoMolecule == <<"warning", "Error", "No molecule loaded.">>
MsgSuccess == <<"information", "Success", "Input file generated:">>
MsgFailed == <<"critical", "Error", "Failed to generate file:">>

NotRead == NoFile

\* Python's truth value of main_window.current_mol: None is false, an RDKit
\* Mol (which defines neither __bool__ nor __len__) is true, atoms or not.
truthy(mol) == mol # NoMol

\* A handler that shows no save picker and touches no file.
NoRun ==
    /\ picker_shown' = FALSE
    /\ output_path' = NoPath
    /\ template_text' = NotRead
    /\ raised' = "none"
    /\ opened' = {}

(***************************************************************************)
(* OrcaInputDialog.load_defaults: the values of the spin boxes after       *)
(* construction, from the environment and the molecule.                    *)
(***************************************************************************)
EnvDefault(var, current, lo, hi) ==
    IF var.set /\ ~int_raises(var.chars)
    THEN setValue(int(var.chars), lo, hi)
    ELSE current

DefaultCharge(mol) ==
    IF truthy(mol)
    THEN setValue(GetFormalCharge(mol), ChargeMin, ChargeMax)
    ELSE ChargeInit

DefaultMult(mol) ==
    IF truthy(mol)
    THEN setValue(NumRadicalElectrons(mol) + 1, MultMin, MultMax)
    ELSE MultInit

load_defaults ==
    /\ sb_nprocs' = EnvDefault(environ.orca_xyz2inp_nprocs,
                               NprocsInit, NprocsMin, NprocsMax)
    /\ sb_maxcore' = EnvDefault(environ.orca_xyz2inp_maxcore,
                                MaxcoreInit, MaxcoreMin, MaxcoreMax)
    /\ sb_charge' = DefaultCharge(current_mol)
    /\ sb_mult' = DefaultMult(current_mol)

\* OrcaInputDialog.__init__: setup_ui, then load_defaults.
Construct ==
    /\ dialog' = "open"
    /\ le_template' = NoPath
    /\ load_defaults
    /\ message' = NoMessage

\* run(main_window): the plugin's entry point.
run ==
    /\ dialog = "none"
    /\ handler' = "run"
    /\ IF ~truthy(current_mol)
       THEN /\ message' = MsgRunNoMolecule
            /\ UNCHANGED <<dialog, fields>>
       ELSE Construct
    /\ NoRun
    /\ UNCHANGED <<host, fs, history>>

\* OrcaInputDialog(main_window), by a host that does not go through run().
OrcaInputDialog ==
    /\ dialog = "none"
    /\ handler' = "__init__"
    /\ Construct
    /\ NoRun
    /\ UNCHANGED <<host, fs, history>>


(***************************************************************************)
(* The user's edits of the form.                                           *)
(***************************************************************************)
UserCharges == {-1}
UserMults == {3}

edit_charge ==
    /\ dialog = "open"
    /\ \E v \in UserCharges : sb_charge' = setValue(v, ChargeMin, ChargeMax)
    /\ handler' = "edit_charge"
    /\ message' = NoMessage
    /\ NoRun
    /\ UNCHANGED <<host, dialog, le_template, sb_mult, sb_nprocs, sb_maxcore, fs, history>>

edit_mult ==
    /\ dialog = "open"
    /\ \E v \in UserMults : sb_mult' = setValue(v, MultMin, MultMax)
    /\ mult_edited' = TRUE
    /\ handler' = "edit_mult"
    /\ message' = NoMessage
    /\ NoRun
    /\ UNCHANGED <<host, dialog, le_template, sb_charge, sb_nprocs, sb_maxcore, fs, fs0, spoiled, failed_writes>>

\* The user types a path into the template field.
edit_template ==
    /\ dialog = "open"
    /\ \E path \in Paths \cup {NoPath} : le_template' = path
    /\ handler' = "edit_template"
    /\ message' = NoMessage
    /\ NoRun
    /\ UNCHANGED <<host, dialog, sb_charge, sb_mult, sb_nprocs, sb_maxcore, fs, history>>

\* OrcaInputDialog.browse_template: the open-file picker returns an existing
\* file, or the empty path when the user cancels it.
browse_template ==
    /\ dialog = "open"
    /\ \E path \in {q \in Paths : exists(fs, q)} \cup {NoPath} :
          le_template' = IF path # NoPath THEN path ELSE le_template
    /\ handler' = "browse_template"
    /\ message' = NoMessage
    /\ NoRun
    /\ UNCHANGED <<host, dialog, sb_charge, sb_mult, sb_nprocs, sb_maxcore, fs, history>>

\* The Cancel button: QDialog.reject.
reject ==
    /\ dialog = "open"
    /\ dialog' = "rejected"
    /\ handler' = "reject"
    /\ message' = NoMessage
    /\ NoRun
    /\ UNCHANGED <<host, fields, fs, history>>

(***************************************************************************)
(* OrcaInputDialog.generate_file.                                          *)
(***************************************************************************)
\* Variant: the check without os.path.exists.
template_missing_empty_only(template_path, files) == template_path = NoPath

\* not template_path or not os.path.exists(template_path)
template_missing(template_path, files) ==
    template_path = NoPath \/ ~exists(files, template_path)

\* Variant: the cancelled picker is not noticed.
cancelled_never(path) == FALSE

\* not output_path
cancelled(path) == path = NoPath

\* xyz_block ... coords_data
coords_data(mol) ==
    LET xyz_block == MolToXYZBlock(mol)
        xyz_lines == split(strip(xyz_block), "\n")
    IN  IF Len(xyz_lines) > 2 THEN join("\n", drop(xyz_lines, 2)) ELSE <<>>

\* Variant: the %pal line written after the template.
write_calls_pal_last(charge, mult, nprocs, maxcore, template_content, coords) ==
    << cat_all(<< <<"#", " ", "Generated", " ", "by", " ", "MoleditPy", " ", "(">>,
                  PLUGIN_NAME, <<")", "\n">> >>),
       cat_all(<< <<"%MaxCore", " ">>, str(maxcore), <<"\n", "\n">> >>),
       cat(template_content, <<"\n", "\n">>),
       cat_all(<< <<"%pal", " ", "nprocs", " ">>, str(nprocs), <<" ", "end", "\n">> >>),
       cat_all(<< <<"*", " ", "xyz", " ">>, str(charge), <<" ">>, str(mult), <<"\n">> >>),
       cat(coords, <<"\n">>),
       <<"*", "\n">> >>

\* The texts of the out.write calls, in order.
write_calls(charge, mult, nprocs, maxcore, template_content, coords) ==
    << cat_all(<< <<"#", " ", "Generated", " ", "by", " ", "MoleditPy", " ", "(">>,
                  PLUGIN_NAME, <<")", "\n">> >>),
       cat_all(<< <<"%pal", " ", "nprocs", " ">>, str(nprocs), <<" ", "end", "\n">> >>),
       cat_all(<< <<"%MaxCore", " ">>, str(maxcore), <<"\n", "\n">> >>),
       cat(template_content, <<"\n", "\n">>),
       cat_all(<< <<"*", " ", "xyz", " ">>, str(charge), <<" ">>, str(mult), <<"\n">> >>),
       cat(coords, <<"\n">>),
       <<"*", "\n">> >>

\* Variant: open(output_path, 'a'), which keeps what the file holds.
open_append(files, path) ==
    IF exists(files, path) THEN files ELSE [files EXCEPT ![path] = File(<<>>)]

\* open(output_path, 'w'): the file is created, or truncated if it exists.
open_for_writing(files, path) == [files EXCEPT ![path] = File(<<>>)]

\* out.write(text)
write(files, path, text) ==
    [files EXCEPT ![path] = File(cat(files[path].text, text))]

RECURSIVE write_all(_, _, _, _)
write_all(files, path, calls, n) ==
    IF n = 0 THEN files
    ELSE write(write_all(files, path, calls, n - 1), path, calls[n])

\* Variant: self.accept() outside the try block.
accepts_always(fault) == TRUE

\* self.accept() is reached only when no statement of the try block raised.
accepts(fault) == fault = "none"

Faults == {"none", "read", "xyz", "open", "write"}

\* A run of generate_file; fault names the statement of the try block that
\* raises ("none": no statement does).  The model follows at most
\* MaxFailedWrites runs that fail while writing.
GenerateFile(faults) ==
    /\ dialog = "open"
    /\ handler' = "generate_file"
    /\ LET template_path == le_template
           mol == current_mol
       IN
       IF template_missing(template_path, fs)
       THEN /\ message' = MsgTemplateNotFound
            /\ NoRun
            /\ UNCHANGED <<dialog, fs, spoiled, failed_writes>>
       ELSE IF ~truthy(mol)
       THEN /\ message' = MsgNoMolecule
            /\ NoRun
            /\ UNCHANGED <<dialog, fs, spoiled, failed_writes>>
       ELSE \E picked \in Paths \cup {NoPath} :
            /\ picker_shown' = TRUE
            /\ output_path' = picked
            /\ IF cancelled(picked)
               THEN /\ message' = NoMessage
                    /\ template_text' = NotRead
                    /\ raised' = "none"
                    /\ opened' = {}
                    /\ UNCHANGED <<dialog, fs, spoiled, failed_writes>>
               ELSE \E fault \in faults :
               LET charge == sb_charge
                   mult == sb_mult
                   nprocs == sb_nprocs
                   maxcore == sb_maxcore
                   template_content == strip(fs[template_path].text)
                   calls == write_calls(charge, mult, nprocs, maxcore,
                                        template_content, coords_data(mol))
                   \* open() raises on a path that names no file (reading)
                   \* and on the empty path (writing).
                   raises == IF fault = "read" \/ ~exists(fs, template_path)
                                THEN "read"
                             ELSE IF fault = "xyz" THEN "xyz"
                             ELSE IF fault = "open" \/ picked = NoPath
                                THEN "open"
                             ELSE fault
               IN
               /\ raises = "write" => failed_writes < MaxFailedWrites
               /\ raised' = raises
               /\ message' = IF raises = "none" THEN MsgSuccess ELSE MsgFailed
               /\ dialog' = IF accepts(raises) THEN "accepted" ELSE dialog
               /\ template_text' = IF raises = "read"
                                   THEN NotRead ELSE fs[template_path]
               /\ IF raises \in {"read", "xyz", "open"}
                  THEN /\ opened' = {}
                       /\ UNCHANGED <<fs, spoiled, failed_writes>>
                  ELSE IF raises = "write"
                  THEN \E done \in 0..(Len(calls) - 1) :
                         /\ opened' = {picked}
                         /\ fs' = write_all(open_for_writing(fs, picked),
                                            picked, calls, done)
                         /\ spoiled' = spoiled \cup {picked}
                         /\ failed_writes' = failed_writes + 1
                  ELSE /\ opened' = {picked}
                       /\ fs' = write_all(open_for_writing(fs, picked),
                                          picked, calls, Len(calls))
                       /\ UNCHANGED <<spoiled, failed_writes>>
    /\ UNCHANGED <<host, fields, fs0, mult_edited>>

generate_file == GenerateFile(Faults)

\* The runs of generate_file in which no statement raises.
generate_file_unfailing == GenerateFile({"none"})

(***************************************************************************)
(* The dialog's life: from the host's state before the plugin runs.        *)
(***************************************************************************)
InitialFileSystems ==
    { [p \in Paths |-> IF p = "a.tmplt" THEN a ELSE b] :
        a \in {NoFile} \cup {File(t) : t \in DialogTemplates},
        b \in {NoFile, File(OldOutput)} }

Init ==
    /\ current_mol \in DialogMols
    /\ environ \in DialogEnvironments
    /\ dialog = "none"
    /\ le_template = NoPath
    /\ sb_charge = ChargeInit
    /\ sb_mult = MultInit
    /\ sb_nprocs = NprocsInit
    /\ sb_maxcore = MaxcoreInit
    /\ fs \in InitialFileSystems
    /\ handler = "none"
    /\ message = NoMessage
    /\ picker_shown = FALSE
    /\ output_path = NoPath
    /\ template_text = NotRead
    /\ raised = "none"
    /\ opened = {}
    /\ fs0 = fs
    /\ mult_edited = FALSE
    /\ spoiled = {}
    /\ failed_writes = 0

Next ==
    \/ run
    \/ OrcaInputDialog
    \/ edit_mult
    \/ edit_template
    \/ browse_template
    \/ reject
    \/ generate_file

Spec == Init /\ [][Next]_vars

(***************************************************************************)
(* The generated document: any molecule and any template, through the      *)
(* runs of the dialog in which no statement of generate_file raises.       *)
(***************************************************************************)
TemplateFileSystems ==
    { [p \in Paths |-> IF p = "a.tmplt" THEN a ELSE NoFile] :
        a \in {NoFile} \cup {File(t) : t \in Templates} }

InitGen ==
    /\ current_mol \in Mols \cup {NoMol}
    /\ environ \in Environments
    /\ dialog = "none"
    /\ le_template = NoPath
    /\ sb_charge = ChargeInit
    /\ sb_mult = MultInit
    /\ sb_nprocs = NprocsInit
    /\ sb_maxcore = MaxcoreInit
    /\ fs \in TemplateFileSystems
    /\ handler = "none"
    /\ message = NoMessage
    /\ picker_shown = FALSE
    /\ output_path = NoPath
    /\ template_text = NotRead
    /\ raised = "none"
    /\ opened = {}
    /\ fs0 = fs
    /\ mult_edited = FALSE
    /\ spoiled = {}
    /\ failed_writes = 0

NextGen ==
    \/ run
    \/ OrcaInputDialog
    \/ edit_charge
    \/ edit_mult
    \/ browse_template
    \/ generate_file_unfailing

SpecGen == InitGen /\ [][NextGen]_vars


(***************************************************************************)
(* The claims.  What they say of the generated text is stated here on its  *)
(* own terms: literal lines, and trimming by position.                     *)
(***************************************************************************)
Min(S) == CHOOSE i \in S : \A j \in S : i <= j
Max(S) == CHOOSE i \in S : \A j \in S : i >= j

\* t without its leading and trailing whitespace: from the first token that
\* is not whitespace to the last one.
Trimmed(t) ==
    LET solid == {i \in 1..Len(t) : t[i] \notin Whitespace}
    IN  IF solid = {} THEN <<>> ELSE SubSeq(t, Min(solid), Max(solid))

CommentLine ==
    <<"#", " ", "Generated", " ", "by", " ", "MoleditPy", " ",
      "(ORCA", " ", "xyz2inp", " ", "GUI)">>
PalLine(nprocs) == <<"%pal", " ", "nprocs", " ", ToString(nprocs), " ", "end">>
MaxCoreLine(maxcore) == <<"%MaxCore", " ", ToString(maxcore)>>
XyzLine(charge, mult) ==
    <<"*", " ", "xyz", " ", ToString(charge), " ", ToString(mult)>>
ClosingLine == <<"*">>

\* The lines of a text in which every line ends with a newline.
LinesOf(t) ==
    LET pieces == split(t, "\n") IN SubSeq(pieces, 1, Len(pieces) - 1)

Occurrences(lines, line) == Cardinality({i \in 1..Len(lines) : lines[i] = line})

\* The coordinate body: one line per atom, in the molecule's order; for a
\* molecule without atoms, the one empty line generate_file writes.
BodyOf(mol) ==
    IF Len(mol.atoms) = 0 THEN <<"\n">> ELSE AtomLines(mol.atoms, 1)

\* The document of the claims for the dialog's values, the host's molecule
\* and a template file's text.
DocumentFor(raw) ==
    CommentLine \o <<"\n">>
    \o PalLine(sb_nprocs) \o <<"\n">>
    \o MaxCoreLine(sb_maxcore) \o <<"\n">>
    \o <<"\n">>
    \o Trimmed(raw) \o <<"\n">>
    \o <<"\n">>
    \o XyzLine(sb_charge, sb_mult) \o <<"\n">>
    \o BodyOf(current_mol)
    \o ClosingLine \o <<"\n">>

Succeeded == handler = "generate_file" /\ message = MsgSuccess
Written == fs[output_path].text
WrittenLines == LinesOf(Written)

\* The place of the '* xyz <charge> <mult>' line that opens the coordinate
\* block: the last such line of the document.
XyzAt ==
    Max({i \in 1..Len(WrittenLines) : WrittenLines[i] = XyzLine(sb_charge, sb_mult)})

TemplateAbsent == le_template = NoPath \/ ~fs[le_template].exists

C2_Original ==
    (Succeeded /\ Trimmed(template_text.text) # <<>>) =>
        /\ Occurrences(WrittenLines, PalLine(sb_nprocs)) = 1
        /\ Occurrences(WrittenLines, MaxCoreLine(sb_maxcore)) = 1
        /\ WrittenLines[2] = PalLine(sb_nprocs)
        /\ WrittenLines[3] = MaxCoreLine(sb_maxcore)

\* C2 as amended: with a template that is not empty, the second line of the
\* output is '%pal nprocs <nprocs> end' and the third is '%MaxCore <maxcore>',
\* both before the template block, and the output holds no such line beyond
\* these two and the ones the template itself holds.
C2_HeaderLines ==
    (Succeeded /\ Trimmed(template_text.text) # <<>>) =>
        LET inTemplate == split(Trimmed(template_text.text), "\n")
        IN  /\ WrittenLines[2] = PalLine(sb_nprocs)
            /\ WrittenLines[3] = MaxCoreLine(sb_maxcore)
            /\ Occurrences(WrittenLines, PalLine(sb_nprocs))
                 = 1 + Occurrences(inTemplate, PalLine(sb_nprocs))
            /\ Occurrences(WrittenLines, MaxCoreLine(sb_maxcore))
                 = 1 + Occurrences(inTemplate, MaxCoreLine(sb_maxcore))

C2_Witness ==
    /\ Succeeded
    /\ Occurrences(WrittenLines, PalLine(sb_nprocs)) = 2
    /\ Occurrences(WrittenLines, MaxCoreLine(sb_maxcore)) = 2

\* C3: in the generated output the number of lines between the
\* '* xyz <charge> <mult>' line and the closing '*' line is the molecule's
\* atom count, and the i-th of them starts with the element symbol of the
\* i-th atom.
C3_Original ==
    Succeeded =>
        LET n == Len(current_mol.atoms)
        IN  /\ WrittenLines[Len(WrittenLines)] = ClosingLine
            /\ Len(WrittenLines) - XyzAt - 1 = n
            /\ \A i \in 1..n :
                 /\ WrittenLines[XyzAt + i] # <<>>
                 /\ WrittenLines[XyzAt + i][1] = current_mol.atoms[i].symbol

\* C4: for a molecule without atoms the '* xyz <charge> <mult>' line is
\* immediately followed by the closing '*' line.
C4_Original ==
    (Succeeded /\ Len(current_mol.atoms) = 0) =>
        /\ XyzAt + 1 = Len(WrittenLines)
        /\ WrittenLines[XyzAt + 1] = ClosingLine

\* C6: when the template file exists and is empty after trimming, the run
\* of generate_file ends with an error, writes no file and does not report
\* success.
C6_Original ==
    (handler = "generate_file" /\ template_text.exists
       /\ Trimmed(template_text.text) = <<>>) =>
        /\ message[1] \in {"warning", "critical"}
        /\ opened = {}
        /\ dialog = "open"

\* C7: for a molecule with r radical electrons at the dialog's creation the
\* multiplicity field holds r + 1 after load_defaults, and r + 1 is written
\* to the '* xyz' line unless the user changes the field.
C7_Original ==
    (dialog # "none" /\ current_mol # NoMol /\ ~mult_edited) =>
        LET r == NumRadicalElectrons(current_mol)
        IN  /\ sb_mult = r + 1
            /\ Succeeded => WrittenLines[XyzAt] = XyzLine(sb_charge, r + 1)


\* A step of generate_file.
GenerateStep == dialog = "open" /\ handler' = "generate_file"

\* C5 as stated: when the template path is empty or names no file, and also
\* when the template cannot be read after the existence check, the run ends
\* with the 'template not found' warning, the save picker is never shown,
\* no path is opened for writing and no file is created or modified.
C5_Original ==
    [][ (GenerateStep /\ (TemplateAbsent \/ raised' = "read")) =>
            /\ message' = MsgTemplateNotFound
            /\ ~picker_shown'
            /\ opened' = {}
            /\ fs' = fs ]_vars

\* C5 as amended: when the template path is empty or names no file, the run
\* ends with the 'template not found' warning, the save picker is never
\* shown, no path is opened for writing and no file is created or modified.
\* When the template cannot be read after the existence check, the save
\* picker has been shown and the run ends with the 'Failed to generate file'
\* error; still no path is opened for writing and no file is created or
\* modified.
C5_TemplateNotFound ==
    [][ GenerateStep =>
            /\ TemplateAbsent =>
                 /\ message' = MsgTemplateNotFound
                 /\ ~picker_shown'
                 /\ opened' = {}
                 /\ fs' = fs
            /\ raised' = "read" =>
                 /\ message' = MsgFailed
                 /\ picker_shown'
                 /\ opened' = {}
                 /\ fs' = fs ]_vars

C5_Witness ==
    /\ handler = "generate_file"
    /\ message = MsgTemplateNotFound
    /\ le_template # NoPath
    /\ ~fs[le_template].exists

\* The document the last run of generate_file would have written had it been
\* the plugin's first: the one for the template file as it was before the
\* plugin ran.
DocumentAlone == DocumentFor(fs0[le_template].text)

C9_WritesOnlyPickedPath ==
    [][ /\ fs' # fs => GenerateStep
        /\ GenerateStep =>
             /\ Cardinality(opened') <= 1
             /\ opened' \subseteq {output_path'} \cap Paths
             /\ opened' # {} => picker_shown'
             /\ \A p \in Paths : fs'[p] # fs[p] => p \in opened'
             /\ (TemplateAbsent \/ current_mol = NoMol
                   \/ (picker_shown' /\ output_path' = NoPath)) =>
                  /\ opened' = {}
                  /\ fs' = fs
             /\ (picker_shown' /\ output_path' = NoPath) =>
                  message' = NoMessage ]_vars

C9_Witness ==
    /\ handler = "generate_file"
    /\ picker_shown
    /\ output_path = NoPath
    /\ dialog = "open"

\* C10: the dialog is accepted only by a run of generate_file that has
\* written the whole document and shown the success message; after every
\* other run of generate_file the dialog is still open and its fields hold
\* what they held.
C10_AcceptedOnlyOnSuccess ==
    /\ [](dialog = "accepted" =>
             /\ Succeeded
             /\ output_path \in Paths
             /\ fs[output_path].exists
             /\ Written = DocumentFor(template_text.text))
    /\ [][ /\ (dialog # "accepted" /\ dialog' = "accepted") =>
                /\ GenerateStep
                /\ message' = MsgSuccess
           /\ (GenerateStep /\ message' # MsgSuccess) =>
                /\ dialog' = "open"
                /\ fields' = fields ]_vars

C10_Witness ==
    /\ handler = "generate_file"
    /\ dialog = "open"
    /\ raised = "write"
    /\ message = MsgFailed

=============================================================================
